---- MODULE Spec2Model ----
(***************************************************************************)
(* Model of telegram/files/inputmedia.py: the five InputMedia* records,    *)
(* their constructors and InputMedia.to_dict.                              *)
(*                                                                         *)
(* Python values are tagged one-field records, so that values of different *)
(* Python types are always comparable: None, str, int, bool, bytes, list,  *)
(* DefaultValue, InputFile, MessageEntity, dict.  Telegram metadata        *)
(* objects (Animation, PhotoSize, Video, Audio, Document) are records      *)
(* [tg |-> class name, attrs |-> attribute function].  The attribute       *)
(* dictionary of an InputMedia instance (self.__dict__) is a function from *)
(* attribute names to values; an attribute that was never assigned is not  *)
(* in its domain.                                                          *)
(***************************************************************************)
EXTENDS Integers, Sequences, FiniteSets, TLC

VARIABLES pc, call, rec, data

vars == <<pc, call, rec, data>>

(***************************************************************************)
(* Python values                                                           *)
(***************************************************************************)
None == [none |-> TRUE]
PyStr(s) == [str |-> s]
PyInt(n) == [int |-> n]
PyBool(b) == [bool |-> b]
PyBytes(b) == [bytes |-> b]
PyList(s) == [list |-> s]
PyDict(f) == [dict |-> f]

\* telegram.utils.helpers.DEFAULT_NONE: a DefaultValue wrapping None.  It is
\* an object of its own, not the null value.
DEFAULT_NONE == [DefaultValue |-> None]

IsStr(v) == DOMAIN v = {"str"}
IsInt(v) == DOMAIN v = {"int"}
IsBool(v) == DOMAIN v = {"bool"}
IsBytes(v) == DOMAIN v = {"bytes"}
IsList(v) == DOMAIN v = {"list"}
IsInputFile(v) == DOMAIN v = {"InputFile"}
IsTgObject(v) == DOMAIN v = {"tg", "attrs"}

\* Python truthiness, as used by the `if x:` tests of the constructors and
\* of to_dict.
Truthy(v) ==
    IF v = None THEN FALSE
    ELSE IF IsStr(v) THEN v.str # ""
    ELSE IF IsInt(v) THEN v.int # 0
    ELSE IF IsBool(v) THEN v.bool
    ELSE IF IsBytes(v) THEN v.bytes # ""
    ELSE IF IsList(v) THEN Len(v.list) > 0
    ELSE TRUE

\* self.<name> = val
SetAttr(attrs, name, val) == (name :> val) @@ attrs

\* if val: self.<name> = val
SetAttrIf(attrs, name, val) ==
    IF Truthy(val) THEN SetAttr(attrs, name, val) ELSE attrs

HasAttr(attrs, name) == name \in DOMAIN attrs

(***************************************************************************)
(* Collaborators imported from the telegram package (lines 23-34).  Their  *)
(* code is outside this file; they are modelled from the specification     *)
(* (sections 4.1, 4.2, 6, 7 and the glossary).                             *)
(***************************************************************************)

\* A metadata object of the platform: Animation, PhotoSize, Video, Audio or
\* Document.
TgObject(cls, attrs) == [tg |-> cls, attrs |-> attrs]

\* An open file handle: a name and the bytes that read() returns.
FileHandle(name, content) == [file |-> [name |-> name, content |-> content]]

IsFileHandle(v) == DOMAIN v = {"file"}

\* A caption entity (glossary): offset, length and kind of a formatting
\* annotation.
MessageEntity(type, offset, length) ==
    [MessageEntity |-> [type |-> type, offset |-> offset, length |-> length]]

IsMessageEntity(v) == DOMAIN v = {"MessageEntity"}

\* MessageEntity.to_dict: the entity's own serialized mapping.
MessageEntityToDict(ce) ==
    PyDict([k \in {"type", "offset", "length"} |->
              IF k = "type" THEN PyStr(ce.MessageEntity.type)
              ELSE IF k = "offset" THEN PyInt(ce.MessageEntity.offset)
              ELSE PyInt(ce.MessageEntity.length)])

\* InputFile(obj, filename=..., attach=...): the attachment-tagged reference
\* of the glossary.  It holds the payload for the multipart encoder and,
\* when attach is requested, a generated attachment key.
InputFile(obj, filename, attach, key) ==
    [InputFile |->
        [input_file_content |->
            IF IsBytes(obj) THEN obj.bytes ELSE obj.file.content,
         attach |-> IF attach THEN PyStr(key) ELSE None,
         filename |->
            IF filename # None THEN filename
            ELSE IF IsFileHandle(obj) THEN PyStr(obj.file.name)
            ELSE None]]

\* InputFile.to_dict: the reference to the attachment ("attach://<key>"),
\* never the payload.
InputFileToDict(f) ==
    IF f.InputFile.attach = None THEN None
    ELSE [attach_uri |-> f.InputFile.attach.str]

\* What a failed call yields instead of a value.
TypeError == [raise |-> "TypeError"]

Raises(v) == DOMAIN v = {"raise"}

\* The tg_type argument of parse_file_input when it is left out.
NoType == "None"

\* A slip: self.media = media, the object itself instead of its identifier.
FileIdOf_WholeObject(obj) == obj

\* A slip: media.file_unique_id is read instead of media.file_id.
FileIdOf_UniqueId(obj) == obj.attrs["file_unique_id"]

\* media.file_id
FileIdOf(obj) == obj.attrs["file_id"]

\* A slip: a Video is taken for an Animation as well.
IsInstance_VideoAsAnimation(obj, cls) ==
    /\ IsTgObject(obj)
    /\ \/ obj.tg = cls
       \/ cls = "Animation" /\ obj.tg = "Video"

\* isinstance(obj, cls) for the metadata classes.
IsInstance(obj, cls) == IsTgObject(obj) /\ obj.tg = cls

\* parse_file_input(file_input, tg_type=None, attach=None, filename=None)
\* (section 4.1): strings pass through unchanged, bytes and file handles are
\* wrapped in an InputFile, an object of tg_type yields its file_id, and
\* anything else is a type error (section 7).
ParseFileInput(file_input, tg_type, attach, filename, key) ==
    IF IsStr(file_input) THEN file_input
    ELSE IF IsBytes(file_input) \/ IsFileHandle(file_input)
        THEN InputFile(file_input, filename, attach, key)
    ELSE IF tg_type # NoType /\ IsInstance(file_input, tg_type)
        THEN FileIdOf(file_input)
    ELSE TypeError

\* hasattr(value, 'to_dict')
HasToDict(v) == IsInputFile(v) \/ IsMessageEntity(v)

\* value.to_dict()
ValueToDict(v) ==
    IF IsInputFile(v) THEN InputFileToDict(v) ELSE MessageEntityToDict(v)

\* TelegramObject.to_dict (section 4.2): every attribute that is set, by
\* name; an attribute holding None is left out; a value that can serialize
\* itself is replaced by its own serialization.
TelegramObjectToDict(attrs) ==
    [k \in {n \in DOMAIN attrs : attrs[n] # None} |->
        IF HasToDict(attrs[k]) THEN ValueToDict(attrs[k]) ELSE attrs[k]]

(***************************************************************************)
(* inputmedia.py                                                           *)
(***************************************************************************)

\* A slip: the custom filename is resolved in place of media when it is given.
MediaInput_FilenameFirst(media, tg_type, filename, key) ==
    ParseFileInput(IF filename # None THEN filename ELSE media,
                   tg_type, TRUE, filename, key)

\* A slip: attach=True is left out of the call.
MediaInput_NoAttach(media, tg_type, filename, key) ==
    ParseFileInput(media, tg_type, FALSE, filename, key)

\* The call that resolves the media argument:
\* parse_file_input(media, [tg_type,] attach=True, filename=filename)
MediaInput(media, tg_type, filename, key) ==
    ParseFileInput(media, tg_type, TRUE, filename, key)

\* The call that resolves the thumb argument:
\* parse_file_input(thumb, attach=True)
ThumbInput(thumb, key) ==
    ParseFileInput(thumb, NoType, TRUE, None, key)

\* A slip: the test is `if thumb is not None:`, so an empty thumb is wrapped
\* too.
SetThumb_IfNotNone(attrs, thumb, key) ==
    IF thumb # None THEN SetAttr(attrs, "thumb", ThumbInput(thumb, key))
    ELSE attrs

\* if thumb: self.thumb = parse_file_input(thumb, attach=True)
SetThumb(attrs, thumb, key) ==
    IF Truthy(thumb) THEN SetAttr(attrs, "thumb", ThumbInput(thumb, key))
    ELSE attrs

\* A constructor raises when one of the calls it makes raises; no instance
\* is returned then.
Constructed(attrs) ==
    IF \E n \in DOMAIN attrs : Raises(attrs[n]) THEN TypeError ELSE attrs

\* A slip: the entities are serialized in reverse order.
InputMediaToDict_Reversed(attrs) ==
    LET base == TelegramObjectToDict(attrs)
        ces == attrs["caption_entities"]
    IN IF Truthy(ces)
       THEN SetAttr(base, "caption_entities",
                PyList([i \in 1..Len(ces.list) |->
                          MessageEntityToDict(ces.list[Len(ces.list) + 1 - i])]))
       ELSE base

\* InputMedia.to_dict
InputMediaToDict(attrs) ==
    LET base == TelegramObjectToDict(attrs)
        ces == attrs["caption_entities"]
    IN IF Truthy(ces)
       THEN SetAttr(base, "caption_entities",
                PyList([i \in 1..Len(ces.list) |->
                          MessageEntityToDict(ces.list[i])]))
       ELSE base

\* A slip: data is self.__dict__ itself, not a copy, so the serialized entity
\* list is written into the record.
InputMediaAfterToDict_WritesBack(attrs) ==
    LET ces == attrs["caption_entities"]
    IN IF Truthy(ces)
       THEN SetAttr(attrs, "caption_entities",
                PyList([i \in 1..Len(ces.list) |->
                          MessageEntityToDict(ces.list[i])]))
       ELSE attrs

\* The attributes of the record once to_dict has returned: to_dict builds
\* data apart from self and assigns to no attribute.
InputMediaAfterToDict(attrs) == attrs

\* A slip: the discriminant of another kind is pasted in.
InputMediaPhoto_DocumentType(media, caption, parse_mode, caption_entities, filename, mkey) ==
    LET a1 == "type" :> PyStr("document")
        a2 == SetAttr(a1, "media", MediaInput(media, "PhotoSize", filename, mkey))
        a3 == SetAttrIf(a2, "caption", caption)
        a4 == SetAttr(a3, "parse_mode", parse_mode)
        a5 == SetAttr(a4, "caption_entities", caption_entities)
    IN Constructed(a5)

\* InputMediaPhoto.__init__
InputMediaPhoto(media, caption, parse_mode, caption_entities, filename, mkey) ==
    LET a1 == "type" :> PyStr("photo")
        a2 == SetAttr(a1, "media", MediaInput(media, "PhotoSize", filename, mkey))
        a3 == SetAttrIf(a2, "caption", caption)
        a4 == SetAttr(a3, "parse_mode", parse_mode)
        a5 == SetAttr(a4, "caption_entities", caption_entities)
    IN Constructed(a5)

\* InputMediaAnimation.__init__
InputMediaAnimation(media, thumb, caption, parse_mode, width, height, duration, caption_entities, filename, mkey, tkey) ==
    LET a1 == "type" :> PyStr("animation")
        a2 == IF IsInstance(media, "Animation")
              THEN SetAttr(SetAttr(SetAttr(SetAttr(a1,
                       "media", FileIdOf(media)),
                       "width", media.attrs["width"]),
                       "height", media.attrs["height"]),
                       "duration", media.attrs["duration"])
              ELSE SetAttr(a1, "media", MediaInput(media, NoType, filename, mkey))
        a3 == SetThumb(a2, thumb, tkey)
        a4 == SetAttrIf(a3, "caption", caption)
        a5 == SetAttr(a4, "parse_mode", parse_mode)
        a6 == SetAttr(a5, "caption_entities", caption_entities)
        a7 == SetAttrIf(a6, "width", width)
        a8 == SetAttrIf(a7, "height", height)
        a9 == SetAttrIf(a8, "duration", duration)
    IN Constructed(a9)

\* InputMediaVideo.__init__
InputMediaVideo(media, caption, width, height, duration, supports_streaming, parse_mode, thumb, caption_entities, filename, mkey, tkey) ==
    LET a1 == "type" :> PyStr("video")
        a2 == IF IsInstance(media, "Video")
              THEN SetAttr(SetAttr(SetAttr(SetAttr(a1,
                       "media", FileIdOf(media)),
                       "width", media.attrs["width"]),
                       "height", media.attrs["height"]),
                       "duration", media.attrs["duration"])
              ELSE SetAttr(a1, "media", MediaInput(media, NoType, filename, mkey))
        a3 == SetThumb(a2, thumb, tkey)
        a4 == SetAttrIf(a3, "caption", caption)
        a5 == SetAttr(a4, "parse_mode", parse_mode)
        a6 == SetAttr(a5, "caption_entities", caption_entities)
        a7 == SetAttrIf(a6, "width", width)
        a8 == SetAttrIf(a7, "height", height)
        a9 == SetAttrIf(a8, "duration", duration)
        a10 == SetAttrIf(a9, "supports_streaming", supports_streaming)
    IN Constructed(a10)

\* InputMediaAudio.__init__
InputMediaAudio(media, thumb, caption, parse_mode, duration, performer, title, caption_entities, filename, mkey, tkey) ==
    LET a1 == "type" :> PyStr("audio")
        a2 == IF IsInstance(media, "Audio")
              THEN SetAttr(SetAttr(SetAttr(SetAttr(a1,
                       "media", FileIdOf(media)),
                       "duration", media.attrs["duration"]),
                       "performer", media.attrs["performer"]),
                       "title", media.attrs["title"])
              ELSE SetAttr(a1, "media", MediaInput(media, NoType, filename, mkey))
        a3 == SetThumb(a2, thumb, tkey)
        a4 == SetAttrIf(a3, "caption", caption)
        a5 == SetAttr(a4, "parse_mode", parse_mode)
        a6 == SetAttr(a5, "caption_entities", caption_entities)
        a7 == SetAttrIf(a6, "duration", duration)
        a8 == SetAttrIf(a7, "performer", performer)
        a9 == SetAttrIf(a8, "title", title)
    IN Constructed(a9)

\* InputMediaDocument.__init__
InputMediaDocument(media, thumb, caption, parse_mode, disable_content_type_detection, caption_entities, filename, mkey, tkey) ==
    LET a1 == "type" :> PyStr("document")
        a2 == SetAttr(a1, "media", MediaInput(media, "Document", filename, mkey))
        a3 == SetThumb(a2, thumb, tkey)
        a4 == SetAttrIf(a3, "caption", caption)
        a5 == SetAttr(a4, "parse_mode", parse_mode)
        a6 == SetAttr(a5, "caption_entities", caption_entities)
        a7 == SetAttr(a6, "disable_content_type_detection",
                      disable_content_type_detection)
    IN Constructed(a7)

(***************************************************************************)
(* The values the callers pass                                             *)
(***************************************************************************)

\* The longest caption-entity list a caller passes.
MaxEntities == 2

Kinds == {"animation", "photo", "video", "audio", "document"}

\* The metadata class each constructor recognises.
OwnClass(kind) ==
    CASE kind = "animation" -> "Animation"
      [] kind = "photo" -> "PhotoSize"
      [] kind = "video" -> "Video"
      [] kind = "audio" -> "Audio"
      [] kind = "document" -> "Document"

AnimationObject ==
    TgObject("Animation",
        [file_id |-> PyStr("animation_file_id"),
         file_unique_id |-> PyStr("animation_unique_id"),
         width |-> PyInt(320), height |-> PyInt(240), duration |-> PyInt(3)])

PhotoSizeObject ==
    TgObject("PhotoSize",
        [file_id |-> PyStr("photo_file_id"),
         file_unique_id |-> PyStr("photo_unique_id"),
         width |-> PyInt(800), height |-> PyInt(600)])

VideoObject ==
    TgObject("Video",
        [file_id |-> PyStr("video_file_id"),
         file_unique_id |-> PyStr("video_unique_id"),
         width |-> PyInt(640), height |-> PyInt(480), duration |-> PyInt(60)])

AudioObject ==
    TgObject("Audio",
        [file_id |-> PyStr("audio_file_id"),
         file_unique_id |-> PyStr("audio_unique_id"),
         duration |-> PyInt(180), performer |-> PyStr("a performer"),
         title |-> PyStr("a title")])

DocumentObject ==
    TgObject("Document",
        [file_id |-> PyStr("document_file_id"),
         file_unique_id |-> PyStr("document_unique_id")])

TgObjects ==
    {AnimationObject, PhotoSizeObject, VideoObject, AudioObject, DocumentObject}

\* Remote identifiers and URLs.
MediaStrings == {PyStr("remote_file_id"), PyStr("https://example.org/media")}

\* Local uploads: bytes and an open file.
MediaPayloads == {PyBytes("media_bytes"), FileHandle("local.bin", "file_bytes")}

\* Values that are no media at all.
MediaInvalid == {PyInt(42)}

\* One metadata object that the constructor of the kind does not recognise.
ForeignObject(kind) ==
    CASE kind = "animation" -> VideoObject
      [] kind = "photo" -> DocumentObject
      [] kind = "video" -> AnimationObject
      [] kind = "audio" -> VideoObject
      [] kind = "document" -> PhotoSizeObject

\* What a caller passes as media to the constructor of the kind.
MediaInputsFor(kind) ==
    MediaStrings \cup MediaPayloads \cup MediaInvalid
        \cup {o \in TgObjects : o.tg = OwnClass(kind)} \cup {ForeignObject(kind)}

ThumbInputs == {None, PyBytes(""), PyBytes("thumb_bytes")}

CaptionInputs == {None, PyStr(""), PyStr("a caption")}

ParseModeInputs == {DEFAULT_NONE, PyStr("HTML")}

IntInputs == {None, PyInt(0), PyInt(7)}

BoolInputs == {None, PyBool(FALSE), PyBool(TRUE)}

TextInputs == {None, PyStr(""), PyStr("some text")}

FilenameInputs == {None, PyStr("custom.bin")}

Entities == {MessageEntity("bold", 0, 4), MessageEntity("italic", 5, 3)}

EntitySeqs == UNION {[1..n -> Entities] : n \in 0..MaxEntities}

\* A list or a tuple of entities (both are iterated the same way), or None.
CaptionEntityInputs == {None} \cup {PyList(s) : s \in EntitySeqs}

\* The attachment keys InputFile generates (uuid4): any two differ.
AttachKeys == {"attached_a", "attached_b"}

(***************************************************************************)
(* State machine: a caller constructs one record and serializes it.        *)
(***************************************************************************)

Absent == [absent |-> TRUE]

NoArgs == [n \in {} |-> None]

Init ==
    /\ pc = "idle"
    /\ call = [kind |-> "none", args |-> NoArgs]
    /\ rec = Absent
    /\ data = Absent

\* The outcome of a constructor call: an instance, or the error raised.
Return(kind, args, result) ==
    /\ call' = [kind |-> kind, args |-> args]
    /\ pc' = IF Raises(result) THEN "failed" ELSE "constructed"
    /\ rec' = IF Raises(result) THEN Absent ELSE result
    /\ data' = Absent

NewPhoto ==
    /\ pc = "idle"
    /\ \E media \in MediaInputsFor("photo"), caption \in CaptionInputs,
       parse_mode \in ParseModeInputs,
       caption_entities \in CaptionEntityInputs, filename \in FilenameInputs,
       mkey \in AttachKeys :
        Return("photo",
               [media |-> media, caption |-> caption, parse_mode |-> parse_mode,
                caption_entities |-> caption_entities, filename |-> filename],
               InputMediaPhoto(media, caption, parse_mode, caption_entities,
                               filename, mkey))

NewAnimation ==
    /\ pc = "idle"
    /\ \E media \in MediaInputsFor("animation"), thumb \in ThumbInputs, caption \in CaptionInputs,
       parse_mode \in ParseModeInputs, width \in IntInputs,
       height \in IntInputs, duration \in IntInputs,
       caption_entities \in CaptionEntityInputs, filename \in FilenameInputs,
       mkey \in AttachKeys, tkey \in AttachKeys :
        /\ mkey # tkey
        /\ Return("animation",
               [media |-> media, thumb |-> thumb, caption |-> caption,
                parse_mode |-> parse_mode, width |-> width, height |-> height,
                duration |-> duration, caption_entities |-> caption_entities,
                filename |-> filename],
               InputMediaAnimation(media, thumb, caption, parse_mode, width,
                                   height, duration, caption_entities,
                                   filename, mkey, tkey))

NewVideo ==
    /\ pc = "idle"
    /\ \E media \in MediaInputsFor("video"), caption \in CaptionInputs, width \in IntInputs,
       height \in IntInputs, duration \in IntInputs,
       supports_streaming \in BoolInputs, parse_mode \in ParseModeInputs,
       thumb \in ThumbInputs, caption_entities \in CaptionEntityInputs,
       filename \in FilenameInputs, mkey \in AttachKeys, tkey \in AttachKeys :
        /\ mkey # tkey
        /\ Return("video",
               [media |-> media, caption |-> caption, width |-> width,
                height |-> height, duration |-> duration,
                supports_streaming |-> supports_streaming,
                parse_mode |-> parse_mode, thumb |-> thumb,
                caption_entities |-> caption_entities, filename |-> filename],
               InputMediaVideo(media, caption, width, height, duration,
                               supports_streaming, parse_mode, thumb,
                               caption_entities, filename, mkey, tkey))

NewAudio ==
    /\ pc = "idle"
    /\ \E media \in MediaInputsFor("audio"), thumb \in ThumbInputs, caption \in CaptionInputs,
       parse_mode \in ParseModeInputs, duration \in IntInputs,
       performer \in TextInputs, title \in TextInputs,
       caption_entities \in CaptionEntityInputs, filename \in FilenameInputs,
       mkey \in AttachKeys, tkey \in AttachKeys :
        /\ mkey # tkey
        /\ Return("audio",
               [media |-> media, thumb |-> thumb, caption |-> caption,
                parse_mode |-> parse_mode, duration |-> duration,
                performer |-> performer, title |-> title,
                caption_entities |-> caption_entities, filename |-> filename],
               InputMediaAudio(media, thumb, caption, parse_mode, duration,
                               performer, title, caption_entities, filename,
                               mkey, tkey))

NewDocument ==
    /\ pc = "idle"
    /\ \E media \in MediaInputsFor("document"), thumb \in ThumbInputs, caption \in CaptionInputs,
       parse_mode \in ParseModeInputs,
       disable_content_type_detection \in BoolInputs,
       caption_entities \in CaptionEntityInputs, filename \in FilenameInputs,
       mkey \in AttachKeys, tkey \in AttachKeys :
        /\ mkey # tkey
        /\ Return("document",
               [media |-> media, thumb |-> thumb, caption |-> caption,
                parse_mode |-> parse_mode,
                disable_content_type_detection |->
                    disable_content_type_detection,
                caption_entities |-> caption_entities, filename |-> filename],
               InputMediaDocument(media, thumb, caption, parse_mode,
                                  disable_content_type_detection,
                                  caption_entities, filename, mkey, tkey))

\* record.to_dict()
ToDict ==
    /\ pc \in {"constructed", "serialized"}
    /\ data' = InputMediaToDict(rec)
    /\ rec' = InputMediaAfterToDict(rec)
    /\ pc' = "serialized"
    /\ UNCHANGED call

Next ==
    \/ NewAnimation
    \/ NewPhoto
    \/ NewVideo
    \/ NewAudio
    \/ NewDocument
    \/ ToDict

Spec == Init /\ [][Next]_vars

(***************************************************************************)
(* Properties                                                              *)
(***************************************************************************)

\* The value of the argument `name` in the constructor call made.
Arg(name) == call.args[name]

HasArg(name) == name \in DOMAIN call.args

\* The default of an optional argument in the signatures.
DefaultOf(name) == IF name = "parse_mode" THEN DEFAULT_NONE ELSE None

\* The caller left every optional argument at its default.
OnlyMediaPassed ==
    \A n \in DOMAIN call.args \ {"media"} : Arg(n) = DefaultOf(n)

\* media is the metadata object of the constructor's own kind.
OwnObjectPassed ==
    /\ call.kind \in Kinds
    /\ IsTgObject(Arg("media"))
    /\ Arg("media").tg = OwnClass(call.kind)

\* The descriptive fields a kind takes from its metadata object.
CopiedFields(kind) ==
    CASE kind \in {"animation", "video"} -> {"width", "height", "duration"}
      [] kind = "audio" -> {"duration", "performer", "title"}
      [] OTHER -> {}

DescriptiveFields == {"width", "height", "duration", "performer", "title"}

\* The optional arguments that are stored and serialized as they are.
ValueFields ==
    {"caption", "parse_mode", "width", "height", "duration",
     "supports_streaming", "performer", "title",
     "disable_content_type_detection"}

\* C1: a record constructed with only the media argument serializes to a
\* mapping whose keys are exactly type and media.
C1_OnlyTypeAndMedia ==
    (pc = "serialized" /\ OnlyMediaPassed) => DOMAIN data = {"type", "media"}

\* C2: with the kind's own metadata object as media, each copied field of the
\* record is the caller's override when one was supplied (0 and the empty
\* string included) and the object's value otherwise.
C2_OverrideWins ==
    (pc = "constructed" /\ OwnObjectPassed) =>
        \A f \in CopiedFields(call.kind) :
            /\ HasAttr(rec, f)
            /\ rec[f] = IF Arg(f) # None THEN Arg(f) ELSE Arg("media").attrs[f]

\* C3: the serialized mapping has a key, with the supplied value, for every
\* optional field the caller supplied (false, zero and empty values
\* included), no key for an optional field that was left unset, and no key
\* that is mapped to null.
C3_ExactlySuppliedFields ==
    pc = "serialized" =>
        /\ \A n \in ValueFields \cap DOMAIN call.args :
              IF Arg(n) # DefaultOf(n)
              THEN n \in DOMAIN data /\ data[n] = Arg(n)
              ELSE (OwnObjectPassed /\ n \in CopiedFields(call.kind))
                      \/ n \notin DOMAIN data
        /\ \A k \in DOMAIN data : data[k] # None

\* media is a value the constructor of the kind accepts: a string, a byte
\* payload or file handle, or the kind's own metadata object.
MediaAccepted ==
    \/ IsStr(Arg("media"))
    \/ IsBytes(Arg("media"))
    \/ IsFileHandle(Arg("media"))
    \/ OwnObjectPassed

Called == pc \in {"constructed", "failed", "serialized"}

Built == pc \in {"constructed", "serialized"}

C6_TypeAndMediaPresent ==
    pc = "serialized" =>
        /\ {"type", "media"} \subseteq DOMAIN data
        /\ data["type"] = PyStr(call.kind)

\* C6 witness: a photo built from a PhotoSize object was serialized.
C6_Witness ==
    /\ pc = "serialized"
    /\ call.kind = "photo"
    /\ OwnObjectPassed
    /\ data["type"] = PyStr("photo")

\* C7: the serialized caption_entities is a sequence as long as the list that
\* was passed, its i-th element being the serialization of the i-th entity;
\* the key is absent when no list was passed.
C7_CaptionEntitiesInOrder ==
    pc = "serialized" =>
        IF Arg("caption_entities") = None
        THEN "caption_entities" \notin DOMAIN data
        ELSE /\ "caption_entities" \in DOMAIN data
             /\ IsList(data["caption_entities"])
             /\ Len(data["caption_entities"].list)
                    = Len(Arg("caption_entities").list)
             /\ \A i \in 1..Len(Arg("caption_entities").list) :
                    data["caption_entities"].list[i]
                        = MessageEntityToDict(Arg("caption_entities").list[i])

\* C7 witness: a list of two different entities was serialized.
C7_Witness ==
    /\ pc = "serialized"
    /\ Arg("caption_entities") # None
    /\ Len(Arg("caption_entities").list) >= 2
    /\ Arg("caption_entities").list[1] # Arg("caption_entities").list[2]
    /\ Len(data["caption_entities"].list) >= 2

\* C8: a string passed as media is the record's media and the serialized
\* media, unmodified, whatever the other arguments are.
C8_StringMediaUnchanged ==
    (Built /\ IsStr(Arg("media"))) =>
        /\ rec["media"] = Arg("media")
        /\ pc = "serialized" =>
              ("media" \in DOMAIN data /\ data["media"] = Arg("media"))

\* C8 witness: a string was passed together with a custom filename and a
\* thumb, and the record was serialized.
C8_Witness ==
    /\ pc = "serialized"
    /\ IsStr(Arg("media"))
    /\ Arg("filename") # None
    /\ HasArg("thumb")
    /\ Truthy(Arg("thumb"))
    /\ data["media"] = Arg("media")

\* C9: a byte payload passed as media becomes an InputFile requested with
\* attach=True that carries the custom filename when one is given; it differs
\* from every plain string, and no value of the serialized mapping is the
\* payload or contains it.
C9_BytesBecomeAttachment ==
    (Built /\ IsBytes(Arg("media"))) =>
        /\ IsInputFile(rec["media"])
        /\ rec["media"].InputFile.attach # None
        /\ rec["media"].InputFile.input_file_content = Arg("media").bytes
        /\ Arg("filename") # None =>
              rec["media"].InputFile.filename = Arg("filename")
        /\ \A s \in MediaStrings : rec["media"] # s
        /\ pc = "serialized" =>
              \A k \in DOMAIN data :
                  /\ ~IsBytes(data[k])
                  /\ ~IsInputFile(data[k])

\* C9 witness: bytes were passed with a custom filename and the record was
\* serialized.
C9_Witness ==
    /\ pc = "serialized"
    /\ IsBytes(Arg("media"))
    /\ Arg("filename") # None
    /\ IsInputFile(rec["media"])
    /\ "media" \in DOMAIN data

\* C10: with the kind's own metadata object as media, the record's media is
\* the object's file_id, whatever filename, thumb or overrides come with it;
\* animation, video and audio also have the object's descriptive fields
\* (each one the object's value when no override is passed for it), photo
\* and document have none.
C10_OwnObjectYieldsFileId ==
    (Built /\ OwnObjectPassed) =>
        /\ rec["media"] = Arg("media").attrs["file_id"]
        /\ IsStr(rec["media"])
        /\ \A f \in CopiedFields(call.kind) :
              /\ HasAttr(rec, f)
              /\ Arg(f) = None => rec[f] = Arg("media").attrs[f]
        /\ \A f \in DescriptiveFields \ CopiedFields(call.kind) :
              ~HasAttr(rec, f)

\* C10 witness: an Audio object was passed with a filename, a thumb and an
\* override, and the record has the object's file_id.
C10_Witness ==
    /\ pc = "constructed"
    /\ call.kind = "audio"
    /\ OwnObjectPassed
    /\ Arg("filename") # None
    /\ Truthy(Arg("thumb"))
    /\ Truthy(Arg("title"))
    /\ Arg("performer") = None
    /\ rec["media"] = PyStr("audio_file_id")
    /\ rec["performer"] = PyStr("a performer")

ThumbPassed ==
    /\ HasArg("thumb")
    /\ IsBytes(Arg("thumb"))
    /\ Arg("thumb").bytes # ""

====
